---- MODULE Spec2Model ----
(***************************************************************************)
(* Model of the role-assignment validators of validator-plugin-azure:      *)
(*   - RoleAssignmentRuleService.ReconcileRoleAssignmentRule, facade API   *)
(*     (internal/validators/role_assignment.go, lines 37-105),             *)
(*   - RoleAssignmentRuleService.ReconcileRoleAssignmentRule, pager API    *)
(*     (internal/validators/role_assignment.go, lines 157-242),            *)
(*   - RBACRuleService.ReconcileRBACRule and processPermissionSet          *)
(*     (internal/validators/rbac.go).                                      *)
(* One behaviour is one reconciliation call: Init draws the rule and the   *)
(* collaborators' answers, the actions run the call's code to its return.  *)
(***************************************************************************)
EXTENDS Naturals, Sequences, FiniteSets, TLC

VARIABLES
    entry,            \* the entry point being run: "facade", "pager" or "rbac"
    rule,             \* the rule passed to the entry point
    api,              \* what the authorization API collaborator will answer
    lookup,           \* the role lookup-map provider: subscription -> [err, table]
    pc,               \* position of the call in its code
    i,                \* index of the next role / permission set / page
    set,              \* the permission set the loop of ReconcileRBACRule read last
    roleAssignments,  \* the grants fetched last (or aggregated from the pages)
    foundRoleNames,   \* the set built from roleAssignments
    roleName,         \* the local roleName: the name the last role resolved to
    failures,         \* the local failures slice
    vr,               \* the ValidationResult the call is building (a pointer)
    result,           \* the returned *ValidationResult (Nil until the return)
    err,              \* the returned error
    calls             \* log of the collaborator calls made so far

vars == <<entry, rule, api, lookup, pc, i, set, roleAssignments, foundRoleNames,
          roleName, failures, vr, result, err, calls>>

(***************************************************************************)
(* Bounds of the model.                                                    *)
(***************************************************************************)
MaxRoles == 2
MaxGrants == 2
MaxSets == 2
MaxPages == 2
MaxPageGrants == 1

(***************************************************************************)
(* Pointers: a nil pointer is the empty tuple, a pointer to v is <<v>>.    *)
(***************************************************************************)
Nil == <<>>
Ptr(v) == <<v>>
Deref(p) == p[1]

NoError == "<nil>"

BoundedSeq(S, n) == UNION {[1..k -> S] : k \in 0..n}

(***************************************************************************)
(* Input domains.                                                          *)
(***************************************************************************)
RoleIds == {"r1", "r2"}
FriendlyNames == {"Reader", "NoSuchRole"}
Subscriptions == {"sub1"}
Principals == {"sp1"}

\* v1alpha1.Role: two optional strings.
\* Both fields set is kept to one representative, whose role name is in no table.
Role ==
    {r \in [Name : {Nil} \cup {Ptr(n) : n \in RoleIds},
            RoleName : {Nil} \cup {Ptr(n) : n \in FriendlyNames}] :
        (r.Name # Nil /\ r.RoleName # Nil)
            => (r.Name = Ptr("r1") /\ r.RoleName = Ptr("NoSuchRole"))}

\* A role definition id as the backend reports it, as its "/"-separated segments.
RoleDefinitionID(name) ==
    <<"subscriptions", "sub1", "providers", "Microsoft.Authorization",
      "roleDefinitions", name>>

\* armauthorization.RoleAssignment, with the two ways of lacking the reference.
RoleAssignment ==
    {[Properties |-> Nil], [Properties |-> Ptr([RoleDefinitionID |-> Nil])]}
    \cup {[Properties |-> Ptr([RoleDefinitionID |-> Ptr(RoleDefinitionID(n))])] :
            n \in RoleIds}

\* Scopes of permission sets, as their "/"-separated segments.
Scopes == {<<"subscriptions", "sub1">>,
           <<"subscriptions", "sub1", "resourceGroups", "rg1">>,
           <<"providers", "Microsoft.Management", "managementGroups", "mg1">>}

\* The lookup maps a provider may hand out.
LookupTables == {[n \in {"Reader"} |-> "r2"],
                 [n \in {"Reader", "Owner"} |-> IF n = "Reader" THEN "r1" ELSE "r2"]}
EmptyTable == [n \in {} |-> "r1"]
LookupOutcomes ==
    {[err |-> NoError, table |-> t] : t \in LookupTables}
    \cup {[err |-> "lookup failed", table |-> EmptyTable]}

(***************************************************************************)
(* Helpers of internal/utils/azure, which the validators call.             *)
(***************************************************************************)
\* The role name is the last segment of the role definition id.
RoleNameFromRoleDefinitionID(roleDefinitionID) ==
    roleDefinitionID[Len(roleDefinitionID)]

\* The subscription embedded in a scope, or an error when there is none.
RoleAssignmentScopeSubscription(scope) ==
    IF Len(scope) >= 2 /\ scope[1] = "subscriptions"
    THEN [sub |-> scope[2], err |-> NoError]
    ELSE [sub |-> "", err |-> "no subscription found in scope"]

(***************************************************************************)
(* Constants of the validator library and of internal/constants.           *)
(***************************************************************************)
ValidationRulePrefix == "validation"
ValidationTypeRoleAssignment == "azure-role-assignment"
ValidationTypeRBAC == "azure-rbac"
ValidationSucceeded == "Succeeded"
ValidationFailed == "Failed"
ConditionTrue == "True"
ConditionFalse == "False"

\* vapi.DefaultValidationCondition()
DefaultValidationCondition ==
    [ValidationType |-> "Unknown", ValidationRule |-> "Unknown", Message |-> "",
     Details |-> <<>>, Failures |-> <<>>, Status |-> ConditionTrue]

errNoSuchBuiltInRole ==
    "specified role name does not correspond to a built-in role; cannot validate"
errNoRoleIdentifierSpecified == "neither role name nor name specified for role"

(***************************************************************************)
(* Shared pieces of the facade validator and of processPermissionSet.      *)
(***************************************************************************)
\* A faulty set builder, which never looks at the first grant.
FoundRoleNames_SkipsFirst(ras) ==
    {RoleNameFromRoleDefinitionID(Deref(Deref(ras[k].Properties).RoleDefinitionID)) :
        k \in {j \in 2..Len(ras) :
                 /\ ras[j].Properties # Nil
                 /\ Deref(ras[j].Properties).RoleDefinitionID # Nil}}

\* role_assignment.go 59-63, rbac.go 97-101: grants without the reference are
\* passed over, the others contribute their role name.
FoundRoleNames(ras) ==
    {RoleNameFromRoleDefinitionID(Deref(Deref(ras[k].Properties).RoleDefinitionID)) :
        k \in {j \in 1..Len(ras) :
                 /\ ras[j].Properties # Nil
                 /\ Deref(ras[j].Properties).RoleDefinitionID # Nil}}

\* A faulty resolver, which takes the friendly name itself for the role's name.
ResolveRole_KeepsFriendlyName(role, subscriptionID) ==
    IF role.Name # Nil
    THEN [roleName |-> Deref(role.Name), err |-> NoError, looked |-> FALSE]
    ELSE IF role.RoleName # Nil
    THEN [roleName |-> Deref(role.RoleName), err |-> lookup[subscriptionID].err,
          looked |-> TRUE]
    ELSE [roleName |-> "", err |-> errNoRoleIdentifierSpecified, looked |-> FALSE]

\* A faulty resolver, which calls the lookup-map provider for a role that carries
\* its name as well.
ResolveRole_AlwaysLooksUp(role, subscriptionID) ==
    IF role.Name # Nil
    THEN [roleName |-> Deref(role.Name), err |-> NoError, looked |-> TRUE]
    ELSE IF role.RoleName # Nil
    THEN LET got == lookup[subscriptionID]
         IN  IF got.err # NoError
             THEN [roleName |-> "", err |-> got.err, looked |-> TRUE]
             ELSE IF Deref(role.RoleName) \notin DOMAIN got.table
             THEN [roleName |-> "", err |-> errNoSuchBuiltInRole, looked |-> TRUE]
             ELSE [roleName |-> got.table[Deref(role.RoleName)], err |-> NoError,
                   looked |-> TRUE]
    ELSE [roleName |-> "", err |-> errNoRoleIdentifierSpecified, looked |-> FALSE]

\* role_assignment.go 68-89: the role's name, or the error that ends the call.
\* `looked` tells whether the lookup-map provider was called.
ResolveRole(role, subscriptionID) ==
    IF role.Name # Nil
    THEN [roleName |-> Deref(role.Name), err |-> NoError, looked |-> FALSE]
    ELSE IF role.RoleName # Nil
    THEN LET got == lookup[subscriptionID]
         IN  IF got.err # NoError
             THEN [roleName |-> "", err |-> got.err, looked |-> TRUE]
             ELSE IF Deref(role.RoleName) \notin DOMAIN got.table
             THEN [roleName |-> "", err |-> errNoSuchBuiltInRole, looked |-> TRUE]
             ELSE [roleName |-> got.table[Deref(role.RoleName)], err |-> NoError,
                   looked |-> TRUE]
    ELSE [roleName |-> "", err |-> errNoRoleIdentifierSpecified, looked |-> FALSE]

\* A logged call: the collaborator, the iteration that made the call, its argument.
Call(op, at, arg) == [op |-> op, at |-> at, arg |-> arg]

\* The value of `set` while no permission set is being processed.
NoSet == [Scope |-> <<>>, Role |-> [Name |-> Nil, RoleName |-> Nil]]

(***************************************************************************)
(* ReconcileRoleAssignmentRule, facade API (role_assignment.go 37-105).    *)
(***************************************************************************)
FacadeRules ==
    [Roles : BoundedSeq(Role, MaxRoles), ServicePrincipalID : Principals,
     SubscriptionID : Subscriptions]

FacadeAPIs ==
    {[err |-> NoError, grants |-> g] : g \in BoundedSeq(RoleAssignment, MaxGrants)}
    \cup {[err |-> "list failed", grants |-> <<>>]}

\* Lines 39-57: the default result, the fetch, and lines 59-63: the found set.
FacadeFetch ==
    /\ entry = "facade" /\ pc = "start"
    /\ LET validationResult ==
               [State |-> ValidationSucceeded,
                Condition |-> [DefaultValidationCondition EXCEPT
                    !.Message = "Service principal has all required roles.",
                    !.ValidationRule =
                        ValidationRulePrefix \o "-" \o rule.ServicePrincipalID,
                    !.ValidationType = ValidationTypeRoleAssignment]]
       IN  /\ vr' = Ptr(validationResult)
           /\ calls' = Append(calls, Call("ListRoleAssignmentsForSubscription", 0,
                                       rule.SubscriptionID))
           /\ failures' = <<>>
           /\ IF api.err # NoError
              THEN /\ result' = Ptr(validationResult)
                   /\ err' = api.err
                   /\ pc' = "done"
                   /\ UNCHANGED <<roleAssignments, foundRoleNames, i>>
              ELSE /\ roleAssignments' = api.grants
                   /\ foundRoleNames' = FoundRoleNames(api.grants)
                   /\ i' = 1
                   /\ pc' = "roles"
                   /\ UNCHANGED <<result, err>>
    /\ UNCHANGED <<entry, rule, api, lookup, set, roleName>>

\* A faulty iteration, which on an error returns the result failed by the misses
\* found so far.
FacadeCheckRole_ReturnsMisses ==
    /\ entry = "facade" /\ pc = "roles" /\ i <= Len(rule.Roles)
    /\ LET r == ResolveRole(rule.Roles[i], rule.SubscriptionID)
       IN  /\ calls' = IF r.looked
                       THEN Append(calls, Call("getRoleLookupMap", i,
                                               rule.SubscriptionID))
                       ELSE calls
           /\ roleName' = r.roleName
           /\ IF r.err # NoError
              THEN /\ result' = Ptr([State |-> IF Len(failures) > 0
                                              THEN ValidationFailed
                                              ELSE ValidationSucceeded,
                                    Condition |-> [Deref(vr).Condition EXCEPT
                                                       !.Failures = failures]])
                   /\ err' = r.err
                   /\ pc' = "done"
                   /\ UNCHANGED <<failures, i>>
              ELSE /\ failures' =
                        IF r.roleName \notin foundRoleNames
                        THEN Append(failures,
                                    "Service principal missing role " \o r.roleName)
                        ELSE failures
                   /\ i' = i + 1
                   /\ UNCHANGED <<result, err, pc>>
    /\ UNCHANGED <<entry, rule, api, lookup, set, roleAssignments, foundRoleNames, vr>>

\* Lines 65-95: one iteration of the loop over rule.Roles.
FacadeCheckRole ==
    /\ entry = "facade" /\ pc = "roles" /\ i <= Len(rule.Roles)
    /\ LET r == ResolveRole(rule.Roles[i], rule.SubscriptionID)
       IN  /\ calls' = IF r.looked
                       THEN Append(calls, Call("getRoleLookupMap", i,
                                               rule.SubscriptionID))
                       ELSE calls
           /\ roleName' = r.roleName
           /\ IF r.err # NoError
              THEN /\ result' = vr
                   /\ err' = r.err
                   /\ pc' = "done"
                   /\ UNCHANGED <<failures, i>>
              ELSE /\ failures' =
                        IF r.roleName \notin foundRoleNames
                        THEN Append(failures,
                                    "Service principal missing role " \o r.roleName)
                        ELSE failures
                   /\ i' = i + 1
                   /\ UNCHANGED <<result, err, pc>>
    /\ UNCHANGED <<entry, rule, api, lookup, set, roleAssignments, foundRoleNames, vr>>

\* Lines 97-102: the result turns Failed when failures were found.
FacadeResult(res, fails) ==
    IF Len(fails) > 0
    THEN [State |-> ValidationFailed,
          Condition |-> [res.Condition EXCEPT
              !.Failures = fails,
              !.Message = "Service principal missing one or more required roles.",
              !.Status = ConditionFalse]]
    ELSE res

\* Lines 97-104, reached when the loop over rule.Roles is over.
FacadeReturn ==
    /\ entry = "facade" /\ pc = "roles" /\ i > Len(rule.Roles)
    /\ vr' = Ptr(FacadeResult(Deref(vr), failures))
    /\ result' = Ptr(FacadeResult(Deref(vr), failures))
    /\ err' = NoError
    /\ pc' = "done"
    /\ UNCHANGED <<entry, rule, api, lookup, i, set, roleAssignments, foundRoleNames,
                   roleName, failures, calls>>

(***************************************************************************)
(* ReconcileRoleAssignmentRule, pager API (role_assignment.go 157-286).    *)
(***************************************************************************)
PagerRules ==
    [Role : Role, ServicePrincipalID : Principals, SubscriptionID : Subscriptions]

\* What one NextPage call may answer: an error, a page whose Value is nil, or a
\* page of grants.
Pages ==
    {[err |-> "page failed", Value |-> Nil], [err |-> NoError, Value |-> Nil]}
    \cup {[err |-> NoError, Value |-> Ptr(g)] :
            g \in BoundedSeq(RoleAssignment, MaxPageGrants)}

\* A faulty identifier, in which the role's name takes precedence over its role name.
Identifier_PrefersName(r) ==
    IF r.Role.Name # Nil THEN Deref(r.Role.Name)
    ELSE IF r.Role.RoleName # Nil THEN Deref(r.Role.RoleName)
    ELSE "invalid-config"

\* Lines 251-257 and 272-277: the identifier of the rule.
Identifier(r) ==
    IF r.Role.RoleName # Nil THEN Deref(r.Role.RoleName)
    ELSE IF r.Role.Name # Nil THEN Deref(r.Role.Name)
    ELSE "invalid-config"

\* Lines 246-266.
buildValidationResult(r, validationType) ==
    [State |-> ValidationSucceeded,
     Condition |-> [DefaultValidationCondition EXCEPT
         !.Message = "Required role assignment was found.",
         !.ValidationRule = ValidationRulePrefix \o "-" \o Identifier(r),
         !.ValidationType = validationType]]

\* Lines 270-286.
failValidationResult(res, r, validationType, message, details) ==
    [State |-> ValidationFailed,
     Condition |-> [res.Condition EXCEPT
         !.Details = details,
         !.Message = message,
         !.Status = ConditionFalse,
         !.ValidationRule = ValidationRulePrefix \o "-" \o Identifier(r),
         !.ValidationType = validationType]]

\* fmt's %t and %q verbs.
FormatBool(b) == IF b THEN "true" ELSE "false"
Quote(str) == "\"" \o str \o "\""

\* Lines 160-170: the default result and the pager.
PagerBegin ==
    /\ entry = "pager" /\ pc = "start"
    /\ vr' = Ptr(buildValidationResult(rule, ValidationTypeRoleAssignment))
    /\ calls' = Append(calls, Call("NewListForSubscriptionPager", 0,
                                       rule.ServicePrincipalID))
    /\ roleAssignments' = <<>>
    /\ i' = 1
    /\ pc' = "pages"
    /\ UNCHANGED <<entry, rule, api, lookup, set, foundRoleNames, roleName, failures,
                   result, err>>

\* A faulty paging loop, which keeps the grants of the last page only.
PagerNextPage_KeepsLastPage ==
    /\ entry = "pager" /\ pc = "pages" /\ i <= api.pages
    /\ \E nextResult \in Pages :
         /\ calls' = Append(calls, Call("NextPage", i, ""))
         /\ IF nextResult.err # NoError
            THEN /\ result' = Nil
                 /\ err' = "failed to retrieve next page of role assignment results from pager: "
                           \o nextResult.err
                 /\ pc' = "done"
                 /\ UNCHANGED <<roleAssignments, i>>
            ELSE /\ roleAssignments' =
                      IF nextResult.Value # Nil
                      THEN Deref(nextResult.Value)
                      ELSE roleAssignments
                 /\ i' = i + 1
                 /\ UNCHANGED <<result, err, pc>>
    /\ UNCHANGED <<entry, rule, api, lookup, set, foundRoleNames, roleName, failures,
                   vr>>

\* Lines 172-180: one iteration of the paging loop; pager.More() holds while the
\* pager has pages left.
PagerNextPage ==
    /\ entry = "pager" /\ pc = "pages" /\ i <= api.pages
    /\ \E nextResult \in Pages :
         /\ calls' = Append(calls, Call("NextPage", i, ""))
         /\ IF nextResult.err # NoError
            THEN /\ result' = Nil
                 /\ err' = "failed to retrieve next page of role assignment results from pager: "
                           \o nextResult.err
                 /\ pc' = "done"
                 /\ UNCHANGED <<roleAssignments, i>>
            ELSE /\ roleAssignments' =
                      IF nextResult.Value # Nil
                      THEN roleAssignments \o Deref(nextResult.Value)
                      ELSE roleAssignments
                 /\ i' = i + 1
                 /\ UNCHANGED <<result, err, pc>>
    /\ UNCHANGED <<entry, rule, api, lookup, set, foundRoleNames, roleName, failures,
                   vr>>

\* Lines 226-233: the first grant that is malformed or carries the role decides.
FirstDecisive(ras, name) ==
    LET hits == {k \in 1..Len(ras) :
                   \/ ras[k].Properties = Nil
                   \/ Deref(ras[k].Properties).RoleDefinitionID = Nil
                   \/ RoleNameFromRoleDefinitionID(
                          Deref(Deref(ras[k].Properties).RoleDefinitionID)) = name}
    IN  IF hits = {} THEN 0 ELSE CHOOSE k \in hits : \A j \in hits : k <= j

Malformed(ra) ==
    ra.Properties = Nil \/ Deref(ra.Properties).RoleDefinitionID = Nil

\* Lines 195-222: the role's name; or the error, or the failed result, that ends
\* the call. `ends` tells whether the call ends here.
PagerResolve(r, res) ==
    LET Fail(message, details, looked) ==
            [roleName |-> "", ends |-> TRUE, err |-> NoError, looked |-> looked,
             result |-> Ptr(failValidationResult(res, r, ValidationTypeRoleAssignment,
                                                 message, details))]
    IN  IF r.Role.Name # Nil
        THEN [roleName |-> Deref(r.Role.Name), ends |-> FALSE, err |-> NoError,
              looked |-> FALSE, result |-> Nil]
        ELSE IF r.Role.RoleName # Nil
        THEN LET got == lookup[r.SubscriptionID]
             IN  IF got.err # NoError
                 THEN [roleName |-> "", ends |-> TRUE,
                       err |-> "failed to get role lookup map: " \o got.err,
                       looked |-> TRUE, result |-> Nil]
                 ELSE IF Deref(r.Role.RoleName) \notin DOMAIN got.table
                 THEN Fail("Role name specified does not exist. Cannot validate.",
                           <<"provided role name: " \o Quote(Deref(r.Role.RoleName))>>,
                           TRUE)
                 ELSE [roleName |-> got.table[Deref(r.Role.RoleName)], ends |-> FALSE,
                       err |-> NoError, looked |-> TRUE, result |-> Nil]
        ELSE Fail("Neither role name nor name specified. Cannot validate.", <<>>, FALSE)

\* Lines 226-241: the grants are walked in order; a grant without the reference
\* ends the call with an error, a grant with the role ends it with the result as
\* built, and the result is failed when the walk finds neither.
PagerMatch(r, ras, name, res) ==
    LET k == FirstDecisive(ras, name)
    IN  IF k # 0 /\ Malformed(ras[k])
        THEN [result |-> Nil,
              err |-> "data from Azure API response malformed; missing Properties.RoleDefinitionID"]
        ELSE IF k # 0
        THEN [result |-> Ptr(res), err |-> NoError]
        ELSE [result |-> Ptr(failValidationResult(res, r, ValidationTypeRoleAssignment,
                   "Desired role assignment not found.",
                   <<"specified role name of role? " \o FormatBool(r.Role.RoleName # Nil),
                     "specified name of role? " \o FormatBool(r.Role.Name # Nil),
                     "specified service principal ID = " \o Quote(r.ServicePrincipalID),
                     "specified subscription ID = " \o Quote(r.SubscriptionID)>>)),
              err |-> NoError]

\* Lines 182-192: the result when no role assignment was found at all.
NoRoleAssignmentsResult ==
    [State |-> ValidationFailed,
     Condition |-> [DefaultValidationCondition EXCEPT
         !.Status = ConditionFalse,
         !.Message = "No role assignments found."]]

\* Lines 182-242, reached when pager.More() is false.
PagerReturn ==
    /\ entry = "pager" /\ pc = "pages" /\ i > api.pages
    /\ IF Len(roleAssignments) = 0
       THEN /\ result' = Ptr(NoRoleAssignmentsResult)
            /\ err' = NoError
            /\ UNCHANGED <<roleName, vr, calls>>
       ELSE LET r == PagerResolve(rule, Deref(vr))
                m == PagerMatch(rule, roleAssignments, r.roleName, Deref(vr))
            IN  /\ roleName' = r.roleName
                /\ calls' = IF r.looked
                            THEN Append(calls, Call("BuiltInRoleLookupMap", 0,
                                                    rule.SubscriptionID))
                            ELSE calls
                /\ result' = IF r.ends THEN r.result ELSE m.result
                /\ err' = IF r.ends THEN r.err ELSE m.err
                /\ vr' = IF r.ends /\ r.result # Nil THEN r.result
                         ELSE IF ~r.ends /\ m.result # Nil THEN m.result
                         ELSE vr
    /\ pc' = "done"
    /\ UNCHANGED <<entry, rule, api, lookup, i, set, roleAssignments, foundRoleNames,
                   failures>>

(***************************************************************************)
(* ReconcileRBACRule and processPermissionSet (rbac.go).                   *)
(***************************************************************************)
PermissionSet == [Scope : Scopes, Role : Role]

\* What one ListRoleAssignmentsForScope call may answer.
ScopeAnswers ==
    {[err |-> NoError, grants |-> g] : g \in BoundedSeq(RoleAssignment, MaxGrants)}
    \cup {[err |-> "list failed", grants |-> <<>>]}

\* The value of `api` while no answer of the API is at hand.
NoAnswer == [err |-> NoError, grants |-> <<>>]

\* A faulty resolver, which parses the scope of every set before anything else.
resolveSetRole_ParsesEveryScope(permissionSet) ==
    LET role == permissionSet.Role
        subForLookup == RoleAssignmentScopeSubscription(permissionSet.Scope)
    IN  IF subForLookup.err # NoError
        THEN [roleName |-> "", err |-> subForLookup.err,
              ops |-> <<"RoleAssignmentScopeSubscription">>]
        ELSE IF role.Name # Nil
        THEN [roleName |-> Deref(role.Name), err |-> NoError,
              ops |-> <<"RoleAssignmentScopeSubscription">>]
        ELSE IF role.RoleName # Nil
        THEN LET got == lookup[subForLookup.sub]
                 ops == <<"RoleAssignmentScopeSubscription", "getRoleLookupMap">>
             IN  IF got.err # NoError
                 THEN [roleName |-> "", err |-> got.err, ops |-> ops]
                 ELSE IF Deref(role.RoleName) \notin DOMAIN got.table
                 THEN [roleName |-> "", err |-> errNoSuchBuiltInRole, ops |-> ops]
                 ELSE [roleName |-> got.table[Deref(role.RoleName)],
                       err |-> NoError, ops |-> ops]
        ELSE [roleName |-> "", err |-> errNoRoleIdentifierSpecified,
              ops |-> <<"RoleAssignmentScopeSubscription">>]

\* rbac.go 105-135: the role's name, or the error that ends the rule. `ops` are
\* the collaborators called, in call order.
resolveSetRole(permissionSet) ==
    LET role == permissionSet.Role
    IN  IF role.Name # Nil
        THEN [roleName |-> Deref(role.Name), err |-> NoError, ops |-> <<>>]
        ELSE IF role.RoleName # Nil
        THEN LET subForLookup == RoleAssignmentScopeSubscription(permissionSet.Scope)
             IN  IF subForLookup.err # NoError
                 THEN [roleName |-> "", err |-> subForLookup.err,
                       ops |-> <<"RoleAssignmentScopeSubscription">>]
                 ELSE LET got == lookup[subForLookup.sub]
                          ops == <<"RoleAssignmentScopeSubscription", "getRoleLookupMap">>
                      IN  IF got.err # NoError
                          THEN [roleName |-> "", err |-> got.err, ops |-> ops]
                          ELSE IF Deref(role.RoleName) \notin DOMAIN got.table
                          THEN [roleName |-> "", err |-> errNoSuchBuiltInRole,
                                ops |-> ops]
                          ELSE [roleName |-> got.table[Deref(role.RoleName)],
                                err |-> NoError, ops |-> ops]
        ELSE [roleName |-> "", err |-> errNoRoleIdentifierSpecified, ops |-> <<>>]

\* A faulty membership test, which reports the roles that were found.
checkSetRole_Inverted(name, found, fails) ==
    IF name \in found
    THEN Append(fails, "Security principal missing role " \o name)
    ELSE fails

\* rbac.go 137-140: the failures list after the membership test.
checkSetRole(name, found, fails) ==
    IF name \notin found
    THEN Append(fails, "Security principal missing role " \o name)
    ELSE fails

\* rbac.go 80-145. permissionSet is the set, fails the failures list so far,
\* answer what the API answers for the set's scope. The outcome is the error, the
\* failures list, the locals and the collaborators called, in call order.
processPermissionSet(permissionSet, principalID, fails, answer) ==
    IF answer.err # NoError
    THEN [err |-> "failed to get role assignments: " \o answer.err,
          failures |-> fails, foundRoleNames |-> {}, roleName |-> "",
          ops |-> <<"ListRoleAssignmentsForScope">>]
    ELSE LET found == FoundRoleNames(answer.grants)
             r == resolveSetRole(permissionSet)
         IN  [err |-> r.err,
              failures |-> IF r.err # NoError THEN fails
                           ELSE checkSetRole(r.roleName, found, fails),
              foundRoleNames |-> found,
              roleName |-> r.roleName,
              ops |-> <<"ListRoleAssignmentsForScope">> \o r.ops]

\* rbac.go 45-53: the default result and the empty failures list.
RBACBegin ==
    /\ entry = "rbac" /\ pc = "start"
    /\ vr' = Ptr([State |-> ValidationSucceeded,
                  Condition |-> [DefaultValidationCondition EXCEPT
                      !.Message = "Security principal has all required roles.",
                      !.ValidationRule =
                          ValidationRulePrefix \o "-" \o rule.SecurityPrincipalID,
                      !.ValidationType = ValidationTypeRBAC]])
    /\ failures' = <<>>
    /\ i' = 1
    /\ pc' = "sets"
    /\ UNCHANGED <<entry, rule, api, lookup, set, roleAssignments, foundRoleNames,
                   roleName, result, err, calls>>

\* rbac.go 55-62: one iteration of the loop over rule.Permissions. The loop reads
\* the sets one by one and never looks back, so the set is drawn when it is read,
\* as is the answer of the API for its scope.
RBACProcessSet ==
    /\ entry = "rbac" /\ pc = "sets" /\ i <= rule.NumPermissions
    /\ \E s \in PermissionSet, answer \in ScopeAnswers :
         LET out == processPermissionSet(s, rule.SecurityPrincipalID, failures, answer)
         IN  /\ set' = s
             /\ api' = answer
             /\ roleAssignments' = answer.grants
             /\ foundRoleNames' = out.foundRoleNames
             /\ roleName' = out.roleName
             /\ calls' = calls \o [k \in 1..Len(out.ops) |->
                                      Call(out.ops[k], i,
                                           IF out.ops[k] = "getRoleLookupMap"
                                           THEN RoleAssignmentScopeSubscription(s.Scope).sub
                                           ELSE s.Scope)]
             /\ failures' = out.failures
             /\ IF out.err # NoError
                THEN /\ result' = vr
                     /\ err' = out.err
                     /\ pc' = "done"
                ELSE /\ pc' = "processed"
                     /\ UNCHANGED <<result, err>>
    /\ UNCHANGED <<entry, rule, lookup, i, vr>>

\* A faulty loop, which passes over the set after the one it processed.
RBACNextSet_SkipsASet ==
    /\ entry = "rbac" /\ pc = "processed"
    /\ i' = i + 2
    /\ set' = NoSet
    /\ api' = NoAnswer
    /\ roleAssignments' = <<>>
    /\ foundRoleNames' = {}
    /\ roleName' = ""
    /\ pc' = "sets"
    /\ UNCHANGED <<entry, rule, lookup, failures, vr, result, err, calls>>

\* rbac.go 55, 57: processPermissionSet returned nil, its locals are gone and the
\* loop moves to the next set.
RBACNextSet ==
    /\ entry = "rbac" /\ pc = "processed"
    /\ i' = i + 1
    /\ set' = NoSet
    /\ api' = NoAnswer
    /\ roleAssignments' = <<>>
    /\ foundRoleNames' = {}
    /\ roleName' = ""
    /\ pc' = "sets"
    /\ UNCHANGED <<entry, rule, lookup, failures, vr, result, err, calls>>

\* A faulty ending, which attaches the failures and leaves the state Succeeded.
RBACResult_KeepsState(res, fails) ==
    IF Len(fails) > 0
    THEN [State |-> ValidationSucceeded,
          Condition |-> [res.Condition EXCEPT
              !.Failures = fails,
              !.Message = "Security principal missing one or more required roles.",
              !.Status = ConditionFalse]]
    ELSE res

\* rbac.go 64-69: the result turns Failed when failures were found.
RBACResult(res, fails) ==
    IF Len(fails) > 0
    THEN [State |-> ValidationFailed,
          Condition |-> [res.Condition EXCEPT
              !.Failures = fails,
              !.Message = "Security principal missing one or more required roles.",
              !.Status = ConditionFalse]]
    ELSE res

\* rbac.go 64-71, reached when the loop over rule.Permissions is over.
RBACReturn ==
    /\ entry = "rbac" /\ pc = "sets" /\ i > rule.NumPermissions
    /\ vr' = Ptr(RBACResult(Deref(vr), failures))
    /\ result' = Ptr(RBACResult(Deref(vr), failures))
    /\ err' = NoError
    /\ pc' = "done"
    /\ UNCHANGED <<entry, rule, api, lookup, i, set, roleAssignments, foundRoleNames,
                   roleName, failures, calls>>

(***************************************************************************)
(* The calls a caller can make, and the specification.                     *)
(***************************************************************************)
InitFacade ==
    /\ entry = "facade"
    /\ rule \in FacadeRules
    /\ api \in FacadeAPIs

InitPager ==
    /\ entry = "pager"
    /\ rule \in PagerRules
    /\ api \in {[pages |-> n] : n \in 0..MaxPages}

InitRBAC ==
    /\ entry = "rbac"
    /\ rule \in [SecurityPrincipalID : Principals, NumPermissions : 0..MaxSets]
    /\ api = NoAnswer

Init ==
    /\ InitFacade \/ InitPager \/ InitRBAC
    /\ lookup \in [Subscriptions -> LookupOutcomes]
    /\ pc = "start"
    /\ i = 0
    /\ set = NoSet
    /\ roleAssignments = <<>>
    /\ foundRoleNames = {}
    /\ roleName = ""
    /\ failures = <<>>
    /\ vr = Nil
    /\ result = Nil
    /\ err = NoError
    /\ calls = <<>>

Next ==
    \/ FacadeFetch
    \/ FacadeCheckRole
    \/ FacadeReturn
    \/ PagerBegin
    \/ PagerNextPage
    \/ PagerReturn
    \/ RBACBegin
    \/ RBACProcessSet
    \/ RBACNextSet
    \/ RBACReturn

Spec == Init /\ [][Next]_vars

\* A call of the pager variant alone. The call runs on its caller's goroutine,
\* which keeps executing it: a step the call can take is taken.
PagerInit == Init /\ entry = "pager"

PagerNext ==
    \/ PagerBegin
    \/ PagerNextPage
    \/ PagerReturn

PagerSpec == PagerInit /\ [][PagerNext]_vars /\ WF_vars(PagerNext)

(***************************************************************************)
(* Vocabulary of the properties, stated on the inputs of the call and on   *)
(* what it returns.                                                        *)
(***************************************************************************)
Done == pc = "done"

StateOf(res) == Deref(res).State
FailuresOf(res) == Deref(res).Condition.Failures
DetailsOf(res) == Deref(res).Condition.Details

\* A role reference resolves: it carries a canonical id, or a friendly name that
\* the lookup table of the subscription knows.
Resolves(role, sub) ==
    \/ role.Name # Nil
    \/ /\ role.RoleName # Nil
       /\ lookup[sub].err = NoError
       /\ Deref(role.RoleName) \in DOMAIN lookup[sub].table

\* The canonical id of a role reference that resolves.
CanonicalId(role, sub) ==
    IF role.Name # Nil THEN Deref(role.Name)
    ELSE lookup[sub].table[Deref(role.RoleName)]

\* A grant lacks its role-definition reference.
LacksReference(ra) ==
    IF ra.Properties = Nil THEN TRUE
    ELSE Deref(ra.Properties).RoleDefinitionID = Nil

\* The role id a grant with a reference carries.
GrantId(ra) ==
    LET id == Deref(Deref(ra.Properties).RoleDefinitionID) IN id[Len(id)]

\* The set of role ids derived from a sequence of grants.
GrantIds(ras) ==
    {GrantId(ras[k]) : k \in {j \in 1..Len(ras) : ~LacksReference(ras[j])}}

\* Text t occurs in text s.
Contains(s, t) ==
    \E k \in 1..(Len(s) + 1) :
        k + Len(t) - 1 <= Len(s) /\ SubSeq(s, k, k + Len(t) - 1) = t

\* The call returned no error and a Succeeded result without failures.
Succeeds ==
    /\ err = NoError
    /\ result # Nil
    /\ StateOf(result) = ValidationSucceeded
    /\ FailuresOf(result) = <<>>

\* The facade call returned, its fetch succeeded.
FacadeFetched == entry = "facade" /\ Done /\ api.err = NoError

\* The pager call returned after all its pages were fetched.
PagerFetched == entry = "pager" /\ Done /\ i > api.pages

FacadeAllResolve ==
    \A k \in 1..Len(rule.Roles) : Resolves(rule.Roles[k], rule.SubscriptionID)

(***************************************************************************)
(* C1                                                                      *)
(***************************************************************************)
FacadeAllPresent ==
    /\ FacadeFetched
    /\ FacadeAllResolve
    /\ \A k \in 1..Len(rule.Roles) :
         CanonicalId(rule.Roles[k], rule.SubscriptionID) \in GrantIds(api.grants)

PagerPresent ==
    /\ PagerFetched
    /\ Resolves(rule.Role, rule.SubscriptionID)
    /\ CanonicalId(rule.Role, rule.SubscriptionID) \in GrantIds(roleAssignments)

\* No grant that lacks its reference comes before the first grant with role id.
NoneLackingBefore(ras, id) ==
    \A k \in 1..Len(ras) :
        LacksReference(ras[k]) =>
            \E j \in 1..(k - 1) : ~LacksReference(ras[j]) /\ GrantId(ras[j]) = id

\* C1 as claimed: in either variant of ReconcileRoleAssignmentRule, when every
\* desired role resolves and its canonical id is among the role ids of the
\* fetched grants, the call returns no error and a Succeeded result with no
\* failures.
C1_AsClaimed == (FacadeAllPresent \/ PagerPresent) => Succeeds

\* C1 amended: the facade variant does so for every such input; the pager
\* variant does so when no grant lacking its role-definition reference precedes
\* the first grant that carries the desired role.
C1_AllPresentSucceeds ==
    /\ FacadeAllPresent => Succeeds
    /\ (PagerPresent
        /\ NoneLackingBefore(roleAssignments,
                             CanonicalId(rule.Role, rule.SubscriptionID)))
           => Succeeds

\* A facade call with two desired roles of different ids, the first given by
\* friendly name, both present.
C1_Witness ==
    /\ FacadeAllPresent
    /\ Len(rule.Roles) = 2
    /\ rule.Roles[1].Name = Nil
    /\ rule.Roles[2].Name # Nil
    /\ CanonicalId(rule.Roles[1], rule.SubscriptionID)
         # CanonicalId(rule.Roles[2], rule.SubscriptionID)
    /\ Succeeds

(***************************************************************************)
(* C2                                                                      *)
(***************************************************************************)
\* The canonical ids of the desired roles that the grants do not cover, in the
\* order of the desired roles.
RECURSIVE Unmet(_, _, _)
Unmet(roles, sub, ids) ==
    IF roles = <<>> THEN <<>>
    ELSE LET id == CanonicalId(Head(roles), sub)
         IN  (IF id \in ids THEN <<>> ELSE <<id>>) \o Unmet(Tail(roles), sub, ids)

\* C2: in the facade ReconcileRoleAssignmentRule, when every desired role
\* resolves, the failures list has exactly one entry per desired role whose
\* canonical id no grant carries, in the input order of those roles, each entry
\* names that canonical id and no friendly name, and the state is Failed iff
\* there is such an entry.
C2_OneFailurePerUnmetRole ==
    (FacadeFetched /\ FacadeAllResolve) =>
        LET unmet == Unmet(rule.Roles, rule.SubscriptionID, GrantIds(api.grants))
        IN  /\ err = NoError
            /\ result # Nil
            /\ Len(FailuresOf(result)) = Len(unmet)
            /\ \A k \in 1..Len(unmet) :
                 /\ Contains(FailuresOf(result)[k], unmet[k])
                 /\ \A id \in RoleIds \ {unmet[k]} :
                      ~Contains(FailuresOf(result)[k], id)
                 /\ \A n \in FriendlyNames : ~Contains(FailuresOf(result)[k], n)
            /\ (StateOf(result) = ValidationFailed) <=> (Len(unmet) > 0)
            /\ StateOf(result) \in {ValidationFailed, ValidationSucceeded}

\* Two desired roles, the first by friendly name, both unmet, with different ids.
C2_Witness ==
    /\ FacadeFetched /\ FacadeAllResolve
    /\ Len(rule.Roles) = 2
    /\ rule.Roles[1].Name = Nil
    /\ Len(FailuresOf(result)) = 2
    /\ FailuresOf(result)[1] # FailuresOf(result)[2]
    /\ api.grants # <<>>

(***************************************************************************)
(* C3                                                                      *)
(***************************************************************************)
\* The kinds of resolution failure of a role reference.
UnknownName(role, sub) ==
    /\ role.Name = Nil /\ role.RoleName # Nil
    /\ lookup[sub].err = NoError
    /\ Deref(role.RoleName) \notin DOMAIN lookup[sub].table
NoIdentifier(role) == role.Name = Nil /\ role.RoleName = Nil
ProviderFails(role, sub) ==
    role.Name = Nil /\ role.RoleName # Nil /\ lookup[sub].err # NoError

\* The scope of a permission set embeds a subscription.
HasSubscription(scope) == Len(scope) >= 2 /\ scope[1] = "subscriptions"

\* The facade call reached a role reference that does not resolve.
FacadeResolutionFails ==
    /\ FacadeFetched
    /\ \E k \in 1..Len(rule.Roles) : ~Resolves(rule.Roles[k], rule.SubscriptionID)

\* The pager call reached the resolution (it found role assignments) and the
\* role reference does not resolve.
PagerResolutionFails ==
    /\ PagerFetched
    /\ Len(roleAssignments) > 0
    /\ ~Resolves(rule.Role, rule.SubscriptionID)

\* ReconcileRBACRule reached the resolution of a set's role reference (the set's
\* fetch succeeded), and the reference does not resolve.
RBACResolutionFails ==
    /\ entry = "rbac" /\ pc \in {"processed", "done"} /\ set # NoSet
    /\ api.err = NoError
    /\ \/ NoIdentifier(set.Role)
       \/ /\ HasSubscription(set.Scope)
          /\ ~Resolves(set.Role, set.Scope[2])

\* The error is returned, and the result that comes with it is no Failed result
\* and carries neither failures nor details.
HardErrorOnly ==
    /\ Done
    /\ err # NoError
    /\ result # Nil =>
         /\ StateOf(result) = ValidationSucceeded
         /\ FailuresOf(result) = <<>>
         /\ DetailsOf(result) = <<>>

\* C3: at every entry point, every failure to resolve a role
\* reference ends in a non-nil error and never in a Failed result with a nil
\* error, and is not written into the result's failures or details.
C3_ResolutionFailureIsHardError ==
    (FacadeResolutionFails \/ PagerResolutionFails \/ RBACResolutionFails)
        => HardErrorOnly

(***************************************************************************)
(* C4                                                                      *)
(***************************************************************************)
\* ReconcileRBACRule has processed a permission set whose fetch succeeded.
RBACSetFetched ==
    /\ entry = "rbac" /\ pc \in {"processed", "done"} /\ set # NoSet
    /\ api.err = NoError

\* The grants that were fetched hold one that lacks its reference.
FetchedALackingGrant ==
    \/ FacadeFetched /\ \E k \in 1..Len(api.grants) : LacksReference(api.grants[k])
    \/ PagerFetched
         /\ \E k \in 1..Len(roleAssignments) : LacksReference(roleAssignments[k])
    \/ RBACSetFetched
         /\ \E k \in 1..Len(roleAssignments) : LacksReference(roleAssignments[k])

\* C4: a fetched grant that lacks its role-definition reference, at any
\* position, makes the reconciliation return a hard error, whatever the other
\* grants of the sequence are.
C4_LackingGrantIsHardError == FetchedALackingGrant => (Done /\ err # NoError)

(***************************************************************************)
(* C5                                                                      *)
(***************************************************************************)
\* The facade call or ReconcileRBACRule returned after it found a role missing.
ReturnedAfterMiss ==
    /\ entry \in {"facade", "rbac"}
    /\ Done
    /\ failures # <<>>

\* The inputs of a permission set and the API's answer for it raise a hard error.
SetRaisesHardError(s, answer) ==
    \/ answer.err # NoError
    \/ NoIdentifier(s.Role)
    \/ /\ s.Role.Name = Nil
       /\ s.Role.RoleName # Nil
       /\ (~HasSubscription(s.Scope) \/ ~Resolves(s.Role, s.Scope[2]))

\* A role or permission set of the rule raises a hard error.
RuleRaisesHardError ==
    \/ entry = "facade"
         /\ \E k \in 1..Len(rule.Roles) : ~Resolves(rule.Roles[k], rule.SubscriptionID)
    \/ entry = "rbac" /\ set # NoSet /\ SetRaisesHardError(set, api)

\* C5 as claimed: a call that finds a desired role missing completes with a
\* Failed result and a nil error, whatever comes after the miss in the rule.
C5_AsClaimed ==
    ReturnedAfterMiss =>
        /\ err = NoError
        /\ result # Nil
        /\ StateOf(result) = ValidationFailed

\* C5 amended: a call that finds a desired role missing completes with a Failed
\* result and a nil error unless a role or permission set that comes after the
\* miss raises a hard error; the call then returns that error.
C5_MissFailsUnlessLaterHardError ==
    ReturnedAfterMiss =>
        IF RuleRaisesHardError
        THEN err # NoError
        ELSE /\ err = NoError
             /\ result # Nil
             /\ StateOf(result) = ValidationFailed
             /\ FailuresOf(result) = failures

\* ReconcileRBACRule returned after both of its sets missed their role.
C5_Witness ==
    /\ entry = "rbac"
    /\ ReturnedAfterMiss
    /\ rule.NumPermissions = 2
    /\ Len(failures) = 2
    /\ err = NoError
    /\ StateOf(result) = ValidationFailed

(***************************************************************************)
(* C6                                                                      *)
(***************************************************************************)
FailuresIffFailed ==
    (FailuresOf(result) # <<>>) <=> (StateOf(result) = ValidationFailed)

\* C6: in every Result an entry point returns, the failures list is
\* non-empty iff the state is Failed.
C6_FailuresNonEmptyIffFailed == (Done /\ result # Nil) => FailuresIffFailed

(***************************************************************************)
(* C7                                                                      *)
(***************************************************************************)
\* The collaborators called for permission set number n, in call order.
OpsAt(n) ==
    LET at == SelectSeq(calls, LAMBDA c : c.at = n)
    IN  [k \in 1..Len(at) |-> at[k].op]

\* The number of permission sets ReconcileRBACRule has entered.
SetsEntered ==
    IF pc = "start" THEN 0
    ELSE IF pc = "sets" THEN i - 1
    ELSE IF pc = "processed" THEN i
    ELSE IF set # NoSet THEN i ELSE i - 1

\* The set's desired role resolves and no grant of the answer carries its id.
SetMisses(s, answer) ==
    /\ ~SetRaisesHardError(s, answer)
    /\ CanonicalId(s.Role, s.Scope[2]) \notin GrantIds(answer.grants)

\* The sets are entered in input order, one at a time: each set entered so far
\* made its calls, the fetch first, and the calls of a set come after those of
\* the sets before it. An error ends the rule at the set that raised it, and
\* without an error every set is entered and the failures found are returned.
C7_InOrderUntilFirstError ==
    entry = "rbac" =>
        /\ \A n \in 1..SetsEntered :
             OpsAt(n) # <<>> /\ OpsAt(n)[1] = "ListRoleAssignmentsForScope"
        /\ \A k \in 1..Len(calls) : calls[k].at \in 1..SetsEntered
        /\ \A k \in 1..Len(calls), l \in 1..Len(calls) :
             k < l => calls[k].at <= calls[l].at
        /\ err # NoError =>
             Done /\ set # NoSet /\ SetRaisesHardError(set, api)
                  /\ SetsEntered <= rule.NumPermissions
        /\ (Done /\ err = NoError) =>
             /\ SetsEntered = rule.NumPermissions
             /\ result # Nil
             /\ FailuresOf(result) = failures

\* One step of the rule: a set that is processed without error appends its miss,
\* if it has one, at the end of the failures list; nothing else touches the list,
\* and no call is made once the rule has returned.
C7_AccumulatesInOrder ==
    entry = "rbac" =>
        /\ (pc = "sets" /\ pc' = "processed") =>
             IF SetMisses(set', api')
             THEN /\ Len(failures') = Len(failures) + 1
                  /\ SubSeq(failures', 1, Len(failures)) = failures
                  /\ Contains(failures'[Len(failures')],
                              CanonicalId(set'.Role, set'.Scope[2]))
             ELSE failures' = failures
        /\ (pc # "sets" /\ pc # "start") => failures' = failures
        /\ (pc = "sets" /\ pc' = "done") => failures' = failures
        /\ Done => calls' = calls

\* C7: ReconcileRBACRule processes the permission sets strictly in input order
\* and stops at the first hard error, making no fetch, scope parse or lookup call
\* for a later set; without a hard error every set is processed and the misses
\* of all sets are accumulated in set order into one failures list.
C7_SetsInOrderStopAtHardError ==
    [](C7_InOrderUntilFirstError) /\ [][C7_AccumulatesInOrder]_vars

\* The first set missed its role, and the second raised a hard error after its
\* lookup: the rule ended there with the calls of two sets.
C7_Witness ==
    /\ entry = "rbac" /\ Done
    /\ rule.NumPermissions = 2
    /\ i = 2
    /\ Len(failures) = 1
    /\ err = errNoSuchBuiltInRole
    /\ OpsAt(1) = <<"ListRoleAssignmentsForScope">>
    /\ OpsAt(2) = <<"ListRoleAssignmentsForScope", "RoleAssignmentScopeSubscription",
                    "getRoleLookupMap">>

(***************************************************************************)
(* C8                                                                      *)
(***************************************************************************)
\* ReconcileRBACRule has entered a permission set and left processPermissionSet.
RBACSetEntered == entry = "rbac" /\ pc \in {"processed", "done"} /\ set # NoSet

\* C8 as claimed: for every set that is reached, the scope is parsed as the first
\* step, and a scope without a subscription is a hard error, whatever form the
\* role reference takes and before any grant fetch for the set.
C8_AsClaimed ==
    RBACSetEntered =>
        /\ OpsAt(i)[1] = "RoleAssignmentScopeSubscription"
        /\ ~HasSubscription(set.Scope) =>
             /\ Done /\ err # NoError
             /\ OpsAt(i) = <<"RoleAssignmentScopeSubscription">>

\* C8 amended: the scope of a reached set is parsed only when the set's role
\* reference carries a friendly name and no canonical id, and then after the
\* set's grant fetch succeeded and before the lookup-provider call; there a scope
\* without a subscription is a hard error that aborts the whole rule, and no
\* lookup call is made. A set whose reference carries a canonical id, or neither
\* field, never has its scope parsed: a scope without a subscription is no error
\* for it.
C8_ScopeParsedForFriendlyNameOnly ==
    RBACSetEntered =>
        LET parsed == \E k \in 1..Len(OpsAt(i)) :
                          OpsAt(i)[k] = "RoleAssignmentScopeSubscription"
            friendlyOnly == set.Role.Name = Nil /\ set.Role.RoleName # Nil
        IN  /\ parsed <=> (api.err = NoError /\ friendlyOnly)
            /\ parsed =>
                 /\ OpsAt(i)[1] = "ListRoleAssignmentsForScope"
                 /\ OpsAt(i)[2] = "RoleAssignmentScopeSubscription"
            /\ (parsed /\ ~HasSubscription(set.Scope)) =>
                 /\ Done /\ err # NoError
                 /\ OpsAt(i) = <<"ListRoleAssignmentsForScope",
                                 "RoleAssignmentScopeSubscription">>
                 /\ result # Nil /\ StateOf(result) = ValidationSucceeded
            /\ (parsed /\ HasSubscription(set.Scope)) =>
                 /\ Len(OpsAt(i)) = 3
                 /\ OpsAt(i)[3] = "getRoleLookupMap"
            /\ (api.err = NoError /\ set.Role.Name # Nil) =>
                 pc = "processed" /\ err = NoError

\* The second set of a rule names its role by friendly name at a scope without a
\* subscription: the rule ended with an error after the fetch and the parse.
C8_Witness ==
    /\ RBACSetEntered /\ Done
    /\ i = 2
    /\ set.Role.Name = Nil /\ set.Role.RoleName # Nil
    /\ ~HasSubscription(set.Scope)
    /\ err # NoError
    /\ OpsAt(2) = <<"ListRoleAssignmentsForScope", "RoleAssignmentScopeSubscription">>

(***************************************************************************)
(* C9                                                                      *)
(***************************************************************************)
\* The text of a scope: its segments, each after a "/".
RECURSIVE ScopeText(_)
ScopeText(scope) ==
    IF scope = <<>> THEN "" ELSE "/" \o Head(scope) \o ScopeText(Tail(scope))

\* The scopes of the fetches made so far, in order: one per set entered.
FetchedScopes ==
    LET f == SelectSeq(calls, LAMBDA c : c.op = "ListRoleAssignmentsForScope")
    IN  [k \in 1..Len(f) |-> f[k].arg]

\* C9 as claimed: a set whose role id is absent from its own grant set adds one
\* failure entry that names the missing role and the set's scope, and a set whose
\* role is present adds nothing.
C9_AsClaimed ==
    [][(entry = "rbac" /\ pc = "sets" /\ pc' = "processed") =>
          IF SetMisses(set', api')
          THEN /\ Len(failures') = Len(failures) + 1
               /\ SubSeq(failures', 1, Len(failures)) = failures
               /\ Contains(failures'[Len(failures')],
                           CanonicalId(set'.Role, set'.Scope[2]))
               /\ Contains(failures'[Len(failures')], ScopeText(set'.Scope))
          ELSE failures' = failures]_vars

\* C9 amended: a set whose role id is absent from its own grant set adds exactly
\* one failure entry, which names the missing role and nothing of the set's
\* scope, and a set whose role is present adds nothing; so two sets that miss the
\* same role at different scopes yield two identical entries.
C9_OneEntryPerMissingSet ==
    [][(entry = "rbac" /\ pc = "sets" /\ pc' = "processed") =>
          IF SetMisses(set', api')
          THEN LET id == CanonicalId(set'.Role, set'.Scope[2])
               IN  /\ Len(failures') = Len(failures) + 1
                   /\ SubSeq(failures', 1, Len(failures)) = failures
                   /\ Contains(failures'[Len(failures')], id)
                   /\ \A k \in 1..Len(set'.Scope) :
                        ~Contains(failures'[Len(failures')], set'.Scope[k])
                   /\ \A k \in 1..Len(failures) :
                        Contains(failures[k], id)
                          => failures[k] = failures'[Len(failures')]
          ELSE failures' = failures]_vars

\* Two sets at different scopes both missed the same role: two equal entries.
C9_Witness ==
    /\ entry = "rbac" /\ pc = "processed"
    /\ i = 2
    /\ Len(FetchedScopes) = 2
    /\ FetchedScopes[1] # FetchedScopes[2]
    /\ SetMisses(set, api)
    /\ Len(failures) = 2
    /\ failures[1] = failures[2]
(***************************************************************************)
(* C10                                                                     *)
(***************************************************************************)
\* What the resolution of a role reference is to yield: the canonical id the
\* reference carries, else the table's value for its friendly name.
ExpectedId(role, sub) ==
    IF role.Name # Nil THEN Deref(role.Name)
    ELSE lookup[sub].table[Deref(role.RoleName)]

\* The error the resolution of a role reference that fails is to yield.
ExpectedError(role, sub) ==
    IF NoIdentifier(role) THEN errNoRoleIdentifierSpecified
    ELSE IF UnknownName(role, sub) THEN errNoSuchBuiltInRole
    ELSE lookup[sub].err

\* The facade call has just resolved, or failed to resolve, a desired role.
FacadeResolution ==
    (entry = "facade" /\ api.err = NoError /\ pc # "start") =>
        \/ pc = "roles" /\ i > 1
             /\ Resolves(rule.Roles[i - 1], rule.SubscriptionID)
             /\ roleName = ExpectedId(rule.Roles[i - 1], rule.SubscriptionID)
        \/ pc = "roles" /\ i = 1
        \/ Done /\ i > Len(rule.Roles) /\ err = NoError
        \/ Done /\ i <= Len(rule.Roles)
             /\ ~Resolves(rule.Roles[i], rule.SubscriptionID)
             /\ err = ExpectedError(rule.Roles[i], rule.SubscriptionID)

\* ReconcileRBACRule has just resolved, or failed to resolve, the role of a set
\* (a set, that is, whose fetch succeeded and whose scope, if it had to be
\* parsed, holds a subscription).
RBACResolution ==
    (/\ RBACSetFetched
     /\ set.Role.Name # Nil \/ set.Role.RoleName = Nil \/ HasSubscription(set.Scope))
    => IF Resolves(set.Role, set.Scope[2])
       THEN /\ pc = "processed"
            /\ roleName = ExpectedId(set.Role, set.Scope[2])
       ELSE /\ Done
            /\ err = ExpectedError(set.Role, set.Scope[2])

\* C10: in every validator, the resolution yields the canonical id of
\* the reference unchanged when it carries one, else the table's value for the
\* friendly name or errNoSuchBuiltInRole when the table lacks the name, else
\* errNoRoleIdentifierSpecified.
C10_ResolutionYieldsIdOrError ==
    /\ FacadeResolution
    /\ RBACResolution
    /\ (PagerFetched /\ Len(roleAssignments) > 0) =>
         IF Resolves(rule.Role, rule.SubscriptionID)
         THEN roleName = ExpectedId(rule.Role, rule.SubscriptionID)
         ELSE IF ProviderFails(rule.Role, rule.SubscriptionID)
         THEN err # NoError
         ELSE err = ExpectedError(rule.Role, rule.SubscriptionID)

(***************************************************************************)
(* C11                                                                     *)
(***************************************************************************)
\* The rule identifier a returned result carries.
RuleOf(res) == Deref(res).Condition.ValidationRule

\* The label of a role reference: its friendly name if set, else its canonical
\* id, else the placeholder.
Label(role) ==
    IF role.RoleName # Nil THEN Deref(role.RoleName)
    ELSE IF role.Name # Nil THEN Deref(role.Name)
    ELSE "invalid-config"

\* A call returned a result.
Returned(e) == entry = e /\ Done /\ result # Nil

\* C11 as claimed: a result of the facade ReconcileRoleAssignmentRule is
\* identified by the rule's principal identifier, and a result of
\* ReconcileRBACRule by the label of a role reference (friendly name, else
\* canonical id, else the placeholder).
C11_AsClaimed ==
    /\ Returned("facade") =>
         RuleOf(result) = ValidationRulePrefix \o "-" \o rule.ServicePrincipalID
    /\ Returned("rbac") =>
         \E role \in Role : RuleOf(result) = ValidationRulePrefix \o "-" \o Label(role)

\* C11 amended: a result of the facade ReconcileRoleAssignmentRule and a result
\* of ReconcileRBACRule are identified by the rule's principal identifier. It is
\* the pager variant of ReconcileRoleAssignmentRule that identifies its result
\* by the label of the rule's role reference, except for the result it returns
\* when no grant was fetched, which is built without the rule and keeps the
\* identifier of the default condition.
C11_RuleIdentifier ==
    /\ Returned("facade") =>
         RuleOf(result) = ValidationRulePrefix \o "-" \o rule.ServicePrincipalID
    /\ Returned("rbac") =>
         RuleOf(result) = ValidationRulePrefix \o "-" \o rule.SecurityPrincipalID
    /\ Returned("pager") =>
         IF Len(roleAssignments) = 0
         THEN RuleOf(result) = DefaultValidationCondition.ValidationRule
         ELSE RuleOf(result) = ValidationRulePrefix \o "-" \o Label(rule.Role)

\* The pager variant returned a result for a role reference that carries both a
\* canonical id and a friendly name: the result is identified by the friendly
\* name.
C11_Witness ==
    /\ Returned("pager") /\ Len(roleAssignments) > 0
    /\ rule.Role.Name # Nil /\ rule.Role.RoleName # Nil
    /\ RuleOf(result) = ValidationRulePrefix \o "-" \o Deref(rule.Role.RoleName)

(***************************************************************************)
(* C12                                                                     *)
(***************************************************************************)
\* The grants of a sequence, as a set.
GrantsOf(ras) == {ras[k] : k \in 1..Len(ras)}

\* The sequences, of up to one grant more, that hold the same grants as ras:
\* its permutations, and those with grants duplicated or duplicates dropped.
Rearrangements(ras) ==
    {other \in BoundedSeq(RoleAssignment, Len(ras) + 1) :
        GrantsOf(other) = GrantsOf(ras)}

\* role_assignment.go 40-45: the result the facade call starts from.
FacadeDefaultResult(r) ==
    [State |-> ValidationSucceeded,
     Condition |-> [DefaultValidationCondition EXCEPT
         !.Message = "Service principal has all required roles.",
         !.ValidationRule = ValidationRulePrefix \o "-" \o r.ServicePrincipalID,
         !.ValidationType = ValidationTypeRoleAssignment]]

\* role_assignment.go 65-104: what the facade call returns for the roles left to
\* check, given the found set and the failures so far.
RECURSIVE FacadeCheckRoles(_, _, _, _, _)
FacadeCheckRoles(roles, subscriptionID, found, fails, res) ==
    IF roles = <<>>
    THEN [result |-> Ptr(FacadeResult(res, fails)), err |-> NoError]
    ELSE LET r == ResolveRole(Head(roles), subscriptionID)
         IN  IF r.err # NoError
             THEN [result |-> Ptr(res), err |-> r.err]
             ELSE FacadeCheckRoles(Tail(roles), subscriptionID, found,
                      IF r.roleName \notin found
                      THEN Append(fails, "Service principal missing role " \o r.roleName)
                      ELSE fails,
                      res)

\* role_assignment.go 59-104: what the facade call returns for fetched grants.
FacadeOutcome(r, ras) ==
    FacadeCheckRoles(r.Roles, r.SubscriptionID, FoundRoleNames(ras), <<>>,
                     FacadeDefaultResult(r))

\* role_assignment.go 182-242: what the pager call returns for the grants
\* aggregated from the pages.
PagerOutcome(r, ras) ==
    IF Len(ras) = 0
    THEN [result |-> Ptr(NoRoleAssignmentsResult), err |-> NoError]
    ELSE LET res == buildValidationResult(r, ValidationTypeRoleAssignment)
             resolved == PagerResolve(r, res)
             m == PagerMatch(r, ras, resolved.roleName, res)
         IN  IF resolved.ends
             THEN [result |-> resolved.result, err |-> resolved.err]
             ELSE [result |-> m.result, err |-> m.err]

\* rbac.go 80-145: what processPermissionSet returns, and adds to an empty
\* failures list, for fetched grants.
SetOutcome(s, principalID, ras) ==
    LET out == processPermissionSet(s, principalID, <<>>,
                                    [err |-> NoError, grants |-> ras])
    IN  [err |-> out.err, failures |-> out.failures]

\* The facade call returns the same for every rearrangement of its grants.
FacadeOrderIrrelevant ==
    FacadeFetched =>
        /\ [result |-> result, err |-> err] = FacadeOutcome(rule, api.grants)
        /\ \A other \in Rearrangements(api.grants) :
             FacadeOutcome(rule, other) = FacadeOutcome(rule, api.grants)

\* processPermissionSet returns the same for every rearrangement of its grants.
RBACOrderIrrelevant ==
    RBACSetFetched =>
        /\ err = SetOutcome(set, rule.SecurityPrincipalID, api.grants).err
        /\ \A other \in Rearrangements(api.grants) :
             SetOutcome(set, rule.SecurityPrincipalID, other)
                 = SetOutcome(set, rule.SecurityPrincipalID, api.grants)

\* The pager call returns the same for every rearrangement of its grants.
PagerOrderIrrelevant ==
    PagerFetched =>
        /\ [result |-> result, err |-> err] = PagerOutcome(rule, roleAssignments)
        /\ \A other \in Rearrangements(roleAssignments) :
             PagerOutcome(rule, other) = PagerOutcome(rule, roleAssignments)

\* C12: for a fixed rule and lookup table, what a reconciliation returns (the
\* Result and the error) is the same for every permutation of the fetched grant
\* sequence and for every duplication of grants in it, in the facade
\* ReconcileRoleAssignmentRule, in ReconcileRBACRule and in the pager variant.
C12_OrderAndDuplicatesIrrelevant ==
    /\ FacadeOrderIrrelevant
    /\ RBACOrderIrrelevant
    /\ PagerOrderIrrelevant

(***************************************************************************)
(* C13                                                                     *)
(***************************************************************************)
\* The calls of the lookup-map provider in a call log.
LookupCalls(log) ==
    SelectSeq(log, LAMBDA c : c.op \in {"getRoleLookupMap", "BuiltInRoleLookupMap"})

\* The calls of the lookup-map provider a step adds to the log.
LookupsAdded == Len(LookupCalls(calls')) - Len(LookupCalls(calls))

\* A role reference that carries a friendly name and no canonical id.
FriendlyOnly(role) == role.Name = Nil /\ role.RoleName # Nil

\* A step of the facade call that examines the role reference rule.Roles[i].
FacadeExamines == entry = "facade" /\ pc = "roles" /\ i <= Len(rule.Roles)

\* A step of ReconcileRBACRule that fetches the grants of a set and, the fetch
\* done, examines the set's role reference set'.Role.
RBACExamines ==
    /\ entry = "rbac" /\ pc = "sets" /\ i <= rule.NumPermissions
    /\ api'.err = NoError

\* A step of the facade call examines a reference: the provider is called once
\* for a friendly name without canonical id, with the rule's subscription, and
\* not at all otherwise.
FacadeLooksUp ==
    FacadeExamines =>
        IF FriendlyOnly(rule.Roles[i])
        THEN /\ LookupsAdded = 1
             /\ calls' = Append(calls, Call("getRoleLookupMap", i, rule.SubscriptionID))
        ELSE calls' = calls

\* A step of the facade call or of ReconcileRBACRule that examines no role
\* reference calls no provider.
NoOtherLookup ==
    (~FacadeExamines /\ ~RBACExamines /\ entry # "pager") => LookupsAdded = 0

\* C13 as claimed: the lookup-map provider is called for a role reference the
\* call examines if and only if the reference carries a friendly name and no
\* canonical id, and then exactly once; no other step calls the provider.
C13_AsClaimed ==
    [][/\ FacadeLooksUp
       /\ RBACExamines =>
            LookupsAdded = IF FriendlyOnly(set'.Role) THEN 1 ELSE 0
       /\ NoOtherLookup]_vars

\* C13 amended: so it is in the facade ReconcileRoleAssignmentRule. In
\* ReconcileRBACRule the provider is called, exactly once, for an examined
\* reference that carries a friendly name and no canonical id only if the
\* subscription can be parsed out of the set's scope; a scope without a
\* subscription ends the rule before the provider is called. A reference with a
\* canonical id, one with neither field, and one the call never examines (it
\* comes after a hard error, or its set's fetch failed) cause no call.
C13_LookupOncePerFriendlyName ==
    [][/\ FacadeLooksUp
       /\ RBACExamines =>
            LookupsAdded = IF FriendlyOnly(set'.Role) /\ HasSubscription(set'.Scope)
                           THEN 1 ELSE 0
       /\ (RBACExamines /\ LookupsAdded = 1) =>
            calls'[Len(calls')] = Call("getRoleLookupMap", i, set'.Scope[2])
       /\ NoOtherLookup]_vars

\* The facade call examined a reference with a friendly name only and a
\* reference with a canonical id: the provider was called once, for the first.
C13_Witness ==
    /\ entry = "facade" /\ Done /\ err = NoError
    /\ Len(rule.Roles) = 2
    /\ FriendlyOnly(rule.Roles[1]) /\ rule.Roles[2].Name # Nil
    /\ LookupCalls(calls) = <<Call("getRoleLookupMap", 1, rule.SubscriptionID)>>

(***************************************************************************)
(* C14                                                                     *)
(***************************************************************************)
\* The NextPage calls in the call log.
NextPageCalls == SelectSeq(calls, LAMBDA c : c.op = "NextPage")

\* While pages are left, nothing is compared, looked up or returned: one page
\* was requested per iteration done.
PagerDrainsFirst ==
    (entry = "pager" /\ pc = "pages") =>
        /\ result = Nil /\ err = NoError
        /\ roleName = "" /\ LookupCalls(calls) = <<>>
        /\ Len(NextPageCalls) = i - 1

\* No grant of a sequence lacks its reference.
NoneLacking(ras) == \A k \in 1..Len(ras) : ~LacksReference(ras[k])

\* The call that fetched all its pages requested every page, in order, and
\* compares over the whole aggregated sequence: no grant on any page fails the
\* call for want of grants, and a role that resolves and that the well-formed
\* grants of all pages lack is reported as not found.
PagerComparesAggregate ==
    PagerFetched =>
        /\ NextPageCalls = [k \in 1..api.pages |-> Call("NextPage", k, "")]
        /\ Len(roleAssignments) = 0 =>
             /\ err = NoError /\ result # Nil
             /\ StateOf(result) = ValidationFailed
             /\ Deref(result).Condition.Message = "No role assignments found."
        /\ (/\ Len(roleAssignments) > 0
            /\ NoneLacking(roleAssignments)
            /\ Resolves(rule.Role, rule.SubscriptionID)
            /\ CanonicalId(rule.Role, rule.SubscriptionID)
                   \notin GrantIds(roleAssignments)) =>
             /\ err = NoError /\ result # Nil
             /\ StateOf(result) = ValidationFailed
             /\ Deref(result).Condition.Message = "Desired role assignment not found."

\* A role that resolves and is carried by a grant of the aggregated sequence, on
\* whatever page, is found.
PagerFindsWherever == PagerPresent => Succeeds

\* A role that resolves and is carried by a grant of the aggregated sequence, on
\* whatever page, is found if no grant lacking its reference comes before that
\* grant; if one does, on whatever page, the call returns no result and the
\* error of malformed data.
PagerFindsOnAnyPage ==
    PagerPresent =>
        IF NoneLackingBefore(roleAssignments,
                             CanonicalId(rule.Role, rule.SubscriptionID))
        THEN Succeeds
        ELSE /\ result = Nil
             /\ err = "data from Azure API response malformed; missing Properties.RoleDefinitionID"

\* A call that ended while pages were left ended on the error of the page it
\* had just requested: no result, an error, nothing looked up or compared.
PagerStopsAtPageError ==
    (entry = "pager" /\ Done /\ i <= api.pages) =>
        /\ result = Nil /\ err # NoError
        /\ Len(NextPageCalls) = i
        /\ roleName = "" /\ LookupCalls(calls) = <<>>

\* A step of the paging loop requests one page and either ends the call or adds
\* the grants of the page, if any, at the end of the sequence aggregated so far.
PagerAggregates ==
    (entry = "pager" /\ pc = "pages" /\ i <= api.pages) =>
        /\ calls' = Append(calls, Call("NextPage", i, ""))
        /\ \/ pc' = "done" /\ roleAssignments' = roleAssignments
           \/ /\ pc' = "pages" /\ i' = i + 1
              /\ \E page \in BoundedSeq(RoleAssignment, MaxPageGrants) :
                   roleAssignments' = roleAssignments \o page

\* C14 as claimed: the pager variant of ReconcileRoleAssignmentRule requests
\* pages until the pager has no more, aggregates the grants of all pages (a page
\* with a nil value list adds nothing) into one sequence before any comparison,
\* so that a desired role granted on a later page only is found; an error on a
\* page ends the call at once with a nil result and an error; and with finitely
\* many pages the call terminates.
C14_AsClaimed ==
    /\ [](/\ PagerDrainsFirst
          /\ PagerComparesAggregate
          /\ PagerFindsWherever
          /\ PagerStopsAtPageError)
    /\ [][PagerAggregates]_vars
    /\ <>Done

\* C14 amended: all of this holds, except that a desired role granted on a
\* later page only is found only if no grant lacking its role-definition
\* reference comes before it in the aggregated sequence; such a grant, on an
\* earlier page or the same, ends the call with a nil result and the error of
\* malformed data.
C14_PagerDrainsAllPages ==
    /\ [](/\ PagerDrainsFirst
          /\ PagerComparesAggregate
          /\ PagerFindsOnAnyPage
          /\ PagerStopsAtPageError)
    /\ [][PagerAggregates]_vars
    /\ <>Done

\* The call fetched two pages, the desired role is carried by the second grant
\* of the aggregated sequence only, and the call succeeded.
C14_Witness ==
    /\ PagerFetched /\ api.pages = 2
    /\ Len(roleAssignments) = 2
    /\ ~LacksReference(roleAssignments[1]) /\ ~LacksReference(roleAssignments[2])
    /\ Resolves(rule.Role, rule.SubscriptionID)
    /\ GrantId(roleAssignments[1]) # CanonicalId(rule.Role, rule.SubscriptionID)
    /\ GrantId(roleAssignments[2]) = CanonicalId(rule.Role, rule.SubscriptionID)
    /\ Succeeds

(***************************************************************************)
(* C15                                                                     *)
(***************************************************************************)
\* rbac.go 46-51: the result ReconcileRBACRule starts from.
RBACDefaultResult(r) ==
    [State |-> ValidationSucceeded,
     Condition |-> [DefaultValidationCondition EXCEPT
         !.Message = "Security principal has all required roles.",
         !.ValidationRule = ValidationRulePrefix \o "-" \o r.SecurityPrincipalID,
         !.ValidationType = ValidationTypeRBAC]]

\* The facade call or ReconcileRBACRule returned an error.
ReturnedError == entry \in {"facade", "rbac"} /\ Done /\ err # NoError

\* C15: when the facade ReconcileRoleAssignmentRule or ReconcileRBACRule returns
\* a non-nil error, the result returned with it is non-nil and is the result the
\* call started from: state Succeeded, the success message, status true and no
\* failures, however many misses the call had found before the error.
C15_ErrorLeavesResultOptimistic ==
    ReturnedError =>
        /\ result # Nil
        /\ Deref(result) = IF entry = "facade" THEN FacadeDefaultResult(rule)
                           ELSE RBACDefaultResult(rule)
        /\ StateOf(result) = ValidationSucceeded
        /\ FailuresOf(result) = <<>>
        /\ Deref(result).Condition.Status = ConditionTrue
        /\ Deref(result).Condition.Message \in
               {"Service principal has all required roles.",
                "Security principal has all required roles."}

\* The facade call found a miss, then a role that does not resolve: it returned
\* the error and a Succeeded result that shows no failure.
C15_Witness ==
    /\ ReturnedError /\ entry = "facade"
    /\ Len(failures) > 0
    /\ result # Nil
    /\ StateOf(result) = ValidationSucceeded
    /\ FailuresOf(result) = <<>>
====
